---- MODULE Spec2Model ----
(***************************************************************************)
(* Conversation state and turn taking of the AIChatbotInterface component  *)
(* (src/mychatbot/src/components/AICHatbotInterface.jsx).                  *)
(*                                                                         *)
(* Texts are sequences of characters, so that String.prototype.trim and    *)
(* the truthiness test of the history filter are computed, not assumed.    *)
(* Every event handler is one action; the part of sendMessage after the    *)
(* await is the action that settles the pending request.                   *)
(***************************************************************************)
EXTENDS Integers, Sequences, FiniteSets, TLC

\* ------------------------------------------------------------------------
\* Bounds of the exploration
\* ------------------------------------------------------------------------
\* longest message store explored
MaxMessages == 4
\* staged attachments explored
MaxFiles == 1
\* Date.now() at page load, and how far the clock advances past it (with 0
\* every reading falls into the millisecond of the page load)
Epoch == 10
MaxTicks == 0
\* longest result list of one recognition session explored
MaxResults == 2
\* staged attachments explored where the staging is the subject
MaxStaged == 2
\* accepted submits explored where dictation or staging is the subject
MaxSideTurns == 1

\* ------------------------------------------------------------------------
\* Texts
\* ------------------------------------------------------------------------
WhiteSpace == {" ", "\n"}

\* what the user can put in the textarea
InputTexts == { <<>>, <<" ">>, <<" ", "a">> }

\* what the endpoint can answer
ResponseTexts == { <<" ">>, <<"\n", "b", " ">> }

\* the result of chat.sendMessage: result.text is a string, or is undefined
\* when the response carries no text part
Results == { [text |-> t] : t \in ResponseTexts } \cup { [finishReason |-> "SAFETY"] }

\* files the file picker can deliver in one change event
File1 == [name |-> "a.txt", size |-> 0]
File2 == [name |-> "b.png", size |-> 2048]
Selections == { <<File1>> }

Keys == { "Enter", "a" }

\* what the recognition engine can report for one utterance: a
\* SpeechRecognitionResult is a list of alternatives, best first
InterimResult == [alts |-> << [transcript |-> <<"h">>] >>, isFinal |-> FALSE]
FinalResult ==
    [alts |-> << [transcript |-> <<"h", "i">>], [transcript |-> <<"h", "a">>] >>,
     isFinal |-> TRUE]
ResultChoices == { InterimResult, FinalResult }

\* files the file picker can deliver where the staging is the subject
File3 == [name |-> "c.pdf", size |-> 1]
StagingSelections == { <<File1, File2>>, <<File3>> }

GreetingText == <<"Hello! I'm your AI assistant. How can I help you today?">>
MissingKeyText == <<"API Error: The Gemini API key is missing. Please check your **.env.local** file and console for details.">>
ErrorText == <<"Sorry, I ran into an error. Please check the browser console for details.">>

RECURSIVE TrimStart(_)
TrimStart(s) ==
    IF s # <<>> /\ Head(s) \in WhiteSpace THEN TrimStart(Tail(s)) ELSE s

RECURSIVE TrimEnd(_)
TrimEnd(s) ==
    IF s # <<>> /\ s[Len(s)] \in WhiteSpace
    THEN TrimEnd(SubSeq(s, 1, Len(s) - 1))
    ELSE s

\* String.prototype.trim
Trim(s) == TrimEnd(TrimStart(s))

\* JavaScript truthiness of a string: only "" is falsy
Truthy(s) == s # <<>>

\* ------------------------------------------------------------------------
\* State
\* ------------------------------------------------------------------------
VARIABLES
    hasKey,         \* GEMINI_API_KEY is set, i.e. ai is not null
    mounted,        \* the mount effects have run
    messages,       \* useState messages
    inputText,      \* useState inputText
    attachedFiles,  \* useState attachedFiles
    isTyping,       \* useState isTyping
    clock,          \* the last reading of Date.now()
    turns,          \* one record per accepted sendMessage call: its request at
                    \* the endpoint and the branch its continuation took
    lastEvent,      \* "sendMessage" when the handler that ran last was
                    \* sendMessage, "other" otherwise
    hasSpeech,      \* window has SpeechRecognition or webkitSpeechRecognition,
                    \* i.e. recognitionRef.current is not null after mount
    isListening,    \* useState isListening
    recognition,    \* the recognition session of recognitionRef.current
    results         \* the SpeechRecognitionResultList of the session

vars == <<hasKey, mounted, messages, inputText, attachedFiles, isTyping,
          clock, turns, lastEvent, hasSpeech, isListening, recognition, results>>

\* the dictation bridge
dictation == <<hasSpeech, isListening, recognition, results>>

\* the component's React state
uiState == <<messages, inputText, attachedFiles, isTyping>>

\* Date.now() never goes back
Readings == { t \in clock .. clock + 1 : t <= Epoch + MaxTicks }

GreetingId == 1

Greeting ==
    [id |-> GreetingId, text |-> GreetingText, sender |-> "bot", timestamp |-> Epoch]

missingKeyMessage(now) ==
    [id |-> now + 2, text |-> MissingKeyText, sender |-> "bot", timestamp |-> now]

\* the snapshot taking the first staged file only
fileMetadata_FirstOnly(files) ==
    IF Len(files) > 0
    THEN << [name |-> files[1].name, size |-> files[1].size] >>
    ELSE <<>>

\* attachedFiles.map((f) => ({ name: f.name, size: f.size })), or null;
\* null is written <<>>, which the non-null branch never yields
fileMetadata(files) ==
    IF Len(files) > 0
    THEN [i \in 1 .. Len(files) |-> [name |-> files[i].name, size |-> files[i].size]]
    ELSE <<>>

newMessage(now, text, files) ==
    [id |-> now, text |-> text, sender |-> "user", timestamp |-> now,
     files |-> fileMetadata(files)]

\* botResponse without the trim of result.text
botResponse_Untrimmed(now, resultText) ==
    [id |-> now + 1, text |-> resultText, sender |-> "bot", timestamp |-> now]

botResponse(now, resultText) ==
    [id |-> now + 1, text |-> Trim(resultText), sender |-> "bot", timestamp |-> now]

errorResponse(now) ==
    [id |-> now + 1, text |-> ErrorText, sender |-> "bot", timestamp |-> now]

RECURSIVE SelectTruthy(_)
SelectTruthy(msgs) ==
    IF msgs = <<>> THEN <<>>
    ELSE IF Truthy(Head(msgs).text)
         THEN <<Head(msgs)>> \o SelectTruthy(Tail(msgs))
         ELSE SelectTruthy(Tail(msgs))

\* the entry carrying the sender tag as role ("bot" instead of "model")
historyEntry_SenderAsRole(msg) ==
    [role |-> msg.sender, parts |-> <<[text |-> msg.text]>>]

historyEntry(msg) ==
    [role |-> IF msg.sender = "user" THEN "user" ELSE "model",
     parts |-> <<[text |-> msg.text]>>]

\* chatHistory without slice(1)
chatHistory_NoSlice(msgs) ==
    LET kept == SelectTruthy(msgs)
    IN  [i \in 1 .. Len(kept) |-> historyEntry(kept[i])]

\* messages.slice(1).filter((msg) => msg.text).map(...)
chatHistory(msgs) ==
    LET kept == SelectTruthy(SubSeq(msgs, 2, Len(msgs)))
    IN  [i \in 1 .. Len(kept) |-> historyEntry(kept[i])]

\* the early return testing inputText instead of inputText.trim()
Rejects_NoTrim(text, files) ==
    ~hasKey \/ (~Truthy(text) /\ Len(files) = 0)

\* the early return without the test of the client
Rejects_NoClientTest(text, files) ==
    ~Truthy(Trim(text)) /\ Len(files) = 0

\* the early return of sendMessage
Rejects(text, files) ==
    ~hasKey \/ (~Truthy(Trim(text)) /\ Len(files) = 0)

\* the Send button's disabled attribute
SendDisabled == ~Truthy(Trim(inputText)) /\ Len(attachedFiles) = 0

InFlight == { k \in 1 .. Len(turns) : turns[k].status = "pending" }
Settled == { k \in 1 .. Len(turns) : turns[k].status # "pending" }

\* ------------------------------------------------------------------------
\* Initial state: the first render
\* ------------------------------------------------------------------------
Init ==
    /\ hasKey \in BOOLEAN
    /\ mounted = FALSE
    /\ messages = <<Greeting>>
    /\ inputText = <<>>
    /\ attachedFiles = <<>>
    /\ isTyping = FALSE
    /\ clock = Epoch
    /\ turns = <<>>
    /\ lastEvent = "other"
    /\ hasSpeech \in BOOLEAN
    /\ isListening = FALSE
    /\ recognition = "idle"
    /\ results = <<>>

\* ------------------------------------------------------------------------
\* Actions
\* ------------------------------------------------------------------------
\* useEffect(..., []) that reports the missing key
MountEffect ==
    /\ ~mounted
    /\ mounted' = TRUE
    /\ \E now \in Readings :
        /\ clock' = now
        /\ messages' = IF ~hasKey /\ Len(messages) = 1
                       THEN Append(messages, missingKeyMessage(now))
                       ELSE messages
    /\ lastEvent' = "other"
    /\ UNCHANGED <<hasKey, inputText, attachedFiles, isTyping, turns>>
    /\ UNCHANGED dictation

\* the textarea's onChange
SetInputText(t) ==
    /\ mounted
    /\ inputText' = t
    /\ lastEvent' = "other"
    /\ UNCHANGED <<hasKey, mounted, messages, attachedFiles, isTyping, clock, turns>>
    /\ UNCHANGED dictation

handleFileAttachment(files) ==
    /\ mounted
    /\ attachedFiles' = attachedFiles \o files
    /\ lastEvent' = "other"
    /\ UNCHANGED <<hasKey, mounted, messages, inputText, isTyping, clock, turns>>
    /\ UNCHANGED dictation

\* the removal dropping the entry and everything after it
removeFile_Truncate(index) ==
    /\ mounted
    /\ index \in 0 .. Len(attachedFiles) - 1
    /\ attachedFiles' = SubSeq(attachedFiles, 1, index)
    /\ lastEvent' = "other"
    /\ UNCHANGED <<hasKey, mounted, messages, inputText, isTyping, clock, turns>>
    /\ UNCHANGED dictation

\* prev.filter((_, i) => i !== index), index counted from 0
removeFile(index) ==
    /\ mounted
    /\ index \in 0 .. Len(attachedFiles) - 1
    /\ attachedFiles' = SubSeq(attachedFiles, 1, index)
                        \o SubSeq(attachedFiles, index + 2, Len(attachedFiles))
    /\ lastEvent' = "other"
    /\ UNCHANGED <<hasKey, mounted, messages, inputText, isTyping, clock, turns>>
    /\ UNCHANGED dictation

\* sendMessage up to its await: the request leaves with the history built
\* from the messages of the render the handler belongs to
sendMessage ==
    /\ lastEvent' = "sendMessage"
    /\ UNCHANGED dictation
    /\ IF Rejects(inputText, attachedFiles)
       THEN UNCHANGED <<hasKey, mounted, messages, inputText, attachedFiles,
                        isTyping, clock, turns>>
       ELSE /\ Len(messages) < MaxMessages
            /\ \E now \in Readings :
                LET userMessageText == inputText
                    user == newMessage(now, userMessageText, attachedFiles)
                    turn == [message |-> <<userMessageText>>,
                             history |-> chatHistory(messages),
                             userIdx |-> Len(messages) + 1,
                             status |-> "pending"]
                IN  /\ clock' = now
                    /\ inputText' = <<>>
                    /\ attachedFiles' = <<>>
                    /\ messages' = Append(messages, user)
                    /\ isTyping' = TRUE
                    /\ turns' = Append(turns, turn)
            /\ UNCHANGED <<hasKey, mounted>>

handleKeyPress(key, shiftKey) ==
    /\ mounted
    /\ IF key = "Enter" /\ ~shiftKey
       THEN sendMessage
       ELSE /\ lastEvent' = "other"
            /\ UNCHANGED dictation
            /\ UNCHANGED <<hasKey, mounted, messages, inputText, attachedFiles,
                           isTyping, clock, turns>>

\* onClick of the Send button; a disabled button delivers no click
ClickSend ==
    /\ mounted
    /\ ~SendDisabled
    /\ sendMessage

\* the continuation appending to the messages of its own render
\* (setMessages([...messages, botResponse])) instead of to prev
ChatResolves_StaleMessages(k, result) ==
    /\ k \in InFlight
    /\ Len(messages) < MaxMessages
    /\ \E now \in Readings :
        /\ clock' = now
        /\ LET stale == SubSeq(messages, 1, turns[k].userIdx - 1)
           IN  IF "text" \in DOMAIN result
               THEN /\ messages' = Append(stale, botResponse(now, result.text))
                    /\ turns' = [turns EXCEPT ![k] =
                                    [message |-> @.message, history |-> @.history,
                                     userIdx |-> @.userIdx, status |-> "ok",
                                     response |-> result.text]]
               ELSE /\ messages' = Append(stale, errorResponse(now))
                    /\ turns' = [turns EXCEPT ![k].status = "error"]
    /\ isTyping' = FALSE
    /\ lastEvent' = "other"
    /\ UNCHANGED <<hasKey, mounted, inputText, attachedFiles>>
    /\ UNCHANGED dictation

\* the continuation with setIsTyping(false) missing
ChatResolves_NoFinally(k, result) ==
    /\ k \in InFlight
    /\ Len(messages) < MaxMessages
    /\ \E now \in Readings :
        /\ clock' = now
        /\ IF "text" \in DOMAIN result
           THEN /\ messages' = Append(messages, botResponse(now, result.text))
                /\ turns' = [turns EXCEPT ![k] =
                                [message |-> @.message, history |-> @.history,
                                 userIdx |-> @.userIdx, status |-> "ok",
                                 response |-> result.text]]
           ELSE /\ messages' = Append(messages, errorResponse(now))
                /\ turns' = [turns EXCEPT ![k].status = "error"]
    /\ lastEvent' = "other"
    /\ UNCHANGED <<hasKey, mounted, inputText, attachedFiles, isTyping>>
    /\ UNCHANGED dictation

\* the continuation putting the answer right after its own user message
ChatResolves_InsertAfterUser(k, result) ==
    /\ k \in InFlight
    /\ Len(messages) < MaxMessages
    /\ \E now \in Readings :
        /\ clock' = now
        /\ LET before == SubSeq(messages, 1, turns[k].userIdx)
               after == SubSeq(messages, turns[k].userIdx + 1, Len(messages))
           IN  IF "text" \in DOMAIN result
               THEN /\ messages' = before \o <<botResponse(now, result.text)>> \o after
                    /\ turns' = [turns EXCEPT ![k] =
                                    [message |-> @.message, history |-> @.history,
                                     userIdx |-> @.userIdx, status |-> "ok",
                                     response |-> result.text]]
               ELSE /\ messages' = before \o <<errorResponse(now)>> \o after
                    /\ turns' = [turns EXCEPT ![k].status = "error"]
    /\ isTyping' = FALSE
    /\ lastEvent' = "other"
    /\ UNCHANGED <<hasKey, mounted, inputText, attachedFiles>>
    /\ UNCHANGED dictation

\* the promise of chat.sendMessage fulfils: the rest of the try block, or
\* the catch block when result.text is undefined, then finally
ChatResolves(k, result) ==
    /\ k \in InFlight
    /\ Len(messages) < MaxMessages
    /\ \E now \in Readings :
        /\ clock' = now
        /\ IF "text" \in DOMAIN result
           THEN /\ messages' = Append(messages, botResponse(now, result.text))
                /\ turns' = [turns EXCEPT ![k] =
                                [message |-> @.message, history |-> @.history,
                                 userIdx |-> @.userIdx, status |-> "ok",
                                 response |-> result.text]]
           ELSE /\ messages' = Append(messages, errorResponse(now))
                /\ turns' = [turns EXCEPT ![k].status = "error"]
    /\ isTyping' = FALSE
    /\ lastEvent' = "other"
    /\ UNCHANGED <<hasKey, mounted, inputText, attachedFiles>>
    /\ UNCHANGED dictation

\* the rejection handled without the finally block
ChatRejects_NoFinally(k) ==
    /\ k \in InFlight
    /\ Len(messages) < MaxMessages
    /\ \E now \in Readings :
        /\ clock' = now
        /\ messages' = Append(messages, errorResponse(now))
    /\ turns' = [turns EXCEPT ![k].status = "error"]
    /\ lastEvent' = "other"
    /\ UNCHANGED <<hasKey, mounted, inputText, attachedFiles, isTyping>>
    /\ UNCHANGED dictation

\* the rejection swallowed: no error message
ChatRejects_Silent(k) ==
    /\ k \in InFlight
    /\ Len(messages) < MaxMessages
    /\ \E now \in Readings : clock' = now
    /\ turns' = [turns EXCEPT ![k].status = "error"]
    /\ isTyping' = FALSE
    /\ lastEvent' = "other"
    /\ UNCHANGED <<hasKey, mounted, messages, inputText, attachedFiles>>
    /\ UNCHANGED dictation

\* the promise rejects: catch, then finally
ChatRejects(k) ==
    /\ k \in InFlight
    /\ Len(messages) < MaxMessages
    /\ \E now \in Readings :
        /\ clock' = now
        /\ messages' = Append(messages, errorResponse(now))
    /\ turns' = [turns EXCEPT ![k].status = "error"]
    /\ isTyping' = FALSE
    /\ lastEvent' = "other"
    /\ UNCHANGED <<hasKey, mounted, inputText, attachedFiles>>
    /\ UNCHANGED dictation

Next ==
    \/ MountEffect
    \/ \E t \in InputTexts : SetInputText(t)
    \/ \E files \in Selections :
          Len(attachedFiles) + Len(files) <= MaxFiles /\ handleFileAttachment(files)
    \/ \E index \in 0 .. MaxFiles : removeFile(index)
    \/ \E key \in Keys, shiftKey \in BOOLEAN : handleKeyPress(key, shiftKey)
    \/ ClickSend
    \/ \E k \in 1 .. MaxMessages, result \in Results : ChatResolves(k, result)
    \/ \E k \in 1 .. MaxMessages : ChatRejects(k)

\* ------------------------------------------------------------------------
\* Dictation
\* ------------------------------------------------------------------------
\* the transcript taking the last alternative of each result
RECURSIVE Transcript_LastAlternative(_)
Transcript_LastAlternative(rs) ==
    IF rs = <<>> THEN <<>>
    ELSE Head(rs).alts[Len(Head(rs).alts)].transcript
         \o Transcript_LastAlternative(Tail(rs))

\* Array.from(event.results).map((result) => result[0])
\*      .map((result) => result.transcript).join("")
RECURSIVE Transcript(_)
Transcript(rs) ==
    IF rs = <<>> THEN <<>>
    ELSE Head(rs).alts[1].transcript \o Transcript(Tail(rs))

\* recognition.start(): a new session; it throws InvalidStateError while a
\* session has started and its end event has not fired
StartThrows == recognition # "idle"

\* toggleListening; an exception of start() leaves the handler before
\* setIsListening(true)
toggleListening ==
    /\ mounted
    /\ lastEvent' = "toggleListening"
    /\ IF isListening
       THEN /\ recognition' = IF hasSpeech /\ recognition = "started"
                               THEN "ending" ELSE recognition
            /\ isListening' = FALSE
            /\ UNCHANGED results
       ELSE IF ~hasSpeech
            THEN /\ isListening' = TRUE
                 /\ UNCHANGED <<recognition, results>>
            ELSE IF StartThrows
                 THEN UNCHANGED <<isListening, recognition, results>>
                 ELSE /\ recognition' = "started"
                      /\ results' = <<>>
                      /\ isListening' = TRUE
    /\ UNCHANGED <<hasKey, mounted, messages, inputText, attachedFiles, isTyping,
                   clock, turns, hasSpeech>>

\* the engine stops recognising by itself (silence, error, no permission);
\* its end event is then due
EngineEnds ==
    /\ mounted /\ hasSpeech
    /\ recognition = "started"
    /\ recognition' = "ending"
    /\ lastEvent' = "other"
    /\ UNCHANGED <<hasKey, mounted, messages, inputText, attachedFiles, isTyping,
                   clock, turns, hasSpeech, isListening, results>>

\* onend without setIsListening(false)
onend_KeepsListening ==
    /\ mounted /\ hasSpeech
    /\ recognition = "ending"
    /\ recognition' = "idle"
    /\ lastEvent' = "onend"
    /\ UNCHANGED <<hasKey, mounted, messages, inputText, attachedFiles, isTyping,
                   clock, turns, hasSpeech, isListening, results>>

\* recognition.onend
onend ==
    /\ mounted /\ hasSpeech
    /\ recognition = "ending"
    /\ recognition' = "idle"
    /\ isListening' = FALSE
    /\ lastEvent' = "onend"
    /\ UNCHANGED <<hasKey, mounted, messages, inputText, attachedFiles, isTyping,
                   clock, turns, hasSpeech, results>>

\* the result list after the engine reports r: an interim result is
\* replaced by its refinement, anything else starts a new entry
Reported(r) ==
    IF results # <<>> /\ ~results[Len(results)].isFinal
    THEN [results EXCEPT ![Len(results)] = r]
    ELSE Append(results, r)

\* recognition.onresult, with continuous and interimResults set: the event
\* carries the whole result list of the session
onresult(r) ==
    /\ mounted /\ hasSpeech
    /\ recognition \in {"started", "ending"}
    /\ Len(Reported(r)) <= MaxResults
    /\ results' = Reported(r)
    /\ inputText' = Transcript(results')
    /\ lastEvent' = "onresult"
    /\ UNCHANGED <<hasKey, mounted, messages, attachedFiles, isTyping, clock, turns,
                   hasSpeech, isListening, recognition>>

\* dictation and submit, without responses and attachments
NextDictation ==
    \/ MountEffect
    \/ \E t \in InputTexts : SetInputText(t)
    \/ \E key \in Keys, shiftKey \in BOOLEAN :
          Len(turns) < MaxSideTurns /\ handleKeyPress(key, shiftKey)
    \/ Len(turns) < MaxSideTurns /\ ClickSend
    \/ toggleListening
    \/ EngineEnds
    \/ onend
    \/ \E r \in ResultChoices : onresult(r)

InitDictation == Init /\ hasKey = TRUE

SpecDictation == InitDictation /\ [][NextDictation]_vars

\* staging and submit, without responses and dictation
NextStaging ==
    \/ MountEffect
    \/ \E t \in InputTexts : SetInputText(t)
    \/ \E files \in StagingSelections :
          Len(attachedFiles) + Len(files) <= MaxStaged /\ handleFileAttachment(files)
    \/ \E index \in 0 .. MaxStaged : removeFile(index)
    \/ \E key \in Keys, shiftKey \in BOOLEAN :
          Len(turns) < MaxSideTurns /\ handleKeyPress(key, shiftKey)
    \/ Len(turns) < MaxSideTurns /\ ClickSend

InitStaging == Init /\ hasKey = TRUE /\ hasSpeech = TRUE

SpecStaging == InitStaging /\ [][NextStaging]_vars

\* turn taking: the dictation control is never used
InitTurns == Init /\ hasSpeech = TRUE

Spec == InitTurns /\ [][Next]_vars

TypeOK ==
    /\ hasKey \in BOOLEAN
    /\ mounted \in BOOLEAN
    /\ isTyping \in BOOLEAN
    /\ clock \in Epoch .. Epoch + MaxTicks
    /\ Len(attachedFiles) <= MaxFiles + MaxStaged
    /\ hasSpeech \in BOOLEAN
    /\ isListening \in BOOLEAN
    /\ recognition \in {"idle", "started", "ending"}
    /\ Len(results) <= MaxResults
    /\ Len(messages) <= MaxMessages

\* ------------------------------------------------------------------------
\* Properties
\* ------------------------------------------------------------------------
IsPrefix(s, t) == Len(s) <= Len(t) /\ SubSeq(t, 1, Len(s)) = s

BotMessages == { i \in 2 .. Len(messages) : messages[i].sender = "bot" }
UserMessages == { i \in 1 .. Len(messages) : messages[i].sender = "user" }

\* the state sendMessage writes
submitState == <<messages, inputText, attachedFiles, isTyping, turns>>

\* turn k's user message is in the store, carrying the submitted text
UserMessageStored(k) ==
    /\ turns[k].userIdx \in 1 .. Len(messages)
    /\ messages[turns[k].userIdx].sender = "user"
    /\ <<messages[turns[k].userIdx].text>> = turns[k].message

\* C1: an accepted submit appends one user message carrying the submitted
\* text; when its request succeeds, one assistant message carrying the
\* trimmed response text is appended after it, and isTyping is false when
\* the submit ends.
C1_SuccessfulSubmit ==
    [][ /\ Len(turns') = Len(turns) + 1 =>
            /\ Len(messages') = Len(messages) + 1
            /\ IsPrefix(messages, messages')
            /\ messages'[Len(messages')].sender = "user"
            /\ messages'[Len(messages')].text = inputText
            /\ turns'[Len(turns')].userIdx = Len(messages')
        /\ \A k \in InFlight : turns'[k].status = "ok" =>
            /\ UserMessageStored(k)
            /\ Len(messages') = Len(messages) + 1
            /\ IsPrefix(messages, messages')
            /\ messages'[Len(messages')].sender = "bot"
            /\ messages'[Len(messages')].text = Trim(turns'[k].response)
            /\ isTyping' = FALSE ]_vars

\* Scenario A: [greeting], one submit, one padded answer
C1_Witness ==
    /\ Len(messages) = 3
    /\ messages[1] = Greeting
    /\ messages[2].sender = "user" /\ messages[2].text = <<" ", "a">>
    /\ Len(turns) = 1 /\ turns[1].status = "ok"
    /\ turns[1].response = <<"\n", "b", " ">>
    /\ messages[3].sender = "bot" /\ messages[3].text = <<"b">>
    /\ ~isTyping

\* C2: when the request of an accepted submit fails, one assistant message
\* with the fixed error text is appended after the user message, isTyping is
\* false when the submit ends, and no further request is issued.
C2_FailingSubmit ==
    [][ \A k \in InFlight : turns'[k].status = "error" =>
            /\ UserMessageStored(k)
            /\ Len(messages') = Len(messages) + 1
            /\ IsPrefix(messages, messages')
            /\ messages'[Len(messages')].sender = "bot"
            /\ messages'[Len(messages')].text = ErrorText
            /\ isTyping' = FALSE
            /\ Len(turns') = Len(turns)
            /\ InFlight' = InFlight \ {k} ]_vars

\* Scenario C: [greeting], one submit, the endpoint throws
C2_Witness ==
    /\ Len(messages) = 3
    /\ messages[2].sender = "user" /\ messages[2].text = <<" ", "a">>
    /\ Len(turns) = 1 /\ turns[1].status = "error"
    /\ messages[3].sender = "bot" /\ messages[3].text = ErrorText
    /\ ~isTyping

\* C3: at most one endpoint request is outstanding at any time.
C3_AtMostOneInFlight == Cardinality(InFlight) <= 1

\* C4: isTyping is true in every state in which a request is outstanding.
C4_TypingWhileInFlight == InFlight # {} => isTyping

\* C5: with the credential present, the assistant messages after the
\* greeting are as many as the accepted submits whose request has completed
\* or failed, and never more than the user messages.
C5_OneAssistantPerTurn ==
    hasKey =>
        /\ Cardinality(BotMessages) = Cardinality(Settled)
        /\ Cardinality(BotMessages) <= Cardinality(UserMessages)
        /\ Cardinality(UserMessages) = Len(turns)

\* two overlapping submits, the later one failed first
C5_Witness ==
    /\ hasKey
    /\ Len(turns) = 2
    /\ turns[1].status = "pending"
    /\ turns[2].status = "error"
    /\ Cardinality(BotMessages) = 1

\* C6: sendMessage with blank text and no staged attachments changes neither
\* the messages, the input text, the staged attachments nor isTyping, and
\* issues no request.
C6_BlankSubmitNoOp ==
    [][ (lastEvent' = "sendMessage" /\ ~Truthy(Trim(inputText)) /\ attachedFiles = <<>>)
            => UNCHANGED submitState ]_vars

\* sendMessage has run on whitespace-only text with the credential present
C6_Witness ==
    /\ hasKey
    /\ lastEvent = "sendMessage"
    /\ inputText = <<" ">>
    /\ attachedFiles = <<>>
    /\ turns = <<>>
    /\ messages = <<Greeting>>

\* C7: without the credential the store is [greeting, configuration error]
\* from the mount effect on, and every sendMessage changes no state and
\* issues no request.
C7_MissingKey ==
    /\ [](~hasKey /\ mounted =>
            /\ Len(messages) = 2
            /\ messages[1] = Greeting
            /\ messages[2].sender = "bot"
            /\ messages[2].text = MissingKeyText
            /\ turns = <<>>
            /\ ~isTyping)
    /\ [][ (~hasKey /\ lastEvent' = "sendMessage") => UNCHANGED submitState ]_vars

\* sendMessage has run on text and an attachment without the credential
C7_Witness ==
    /\ ~hasKey
    /\ lastEvent = "sendMessage"
    /\ inputText = <<" ", "a">>
    /\ attachedFiles = <<File1>>
    /\ Len(messages) = 2

\* C8: no history handed to the endpoint has an entry for the greeting or an
\* entry with empty text.
C8_HistoryContent ==
    \A k \in 1 .. Len(turns) :
        \A i \in 1 .. Len(turns[k].history) :
            /\ turns[k].history[i].parts[1].text # <<>>
            /\ turns[k].history[i].parts[1].text # GreetingText

\* a submit made after an empty-text message, with a history that is not empty
C8_Witness ==
    \E k \in 1 .. Len(turns) :
        /\ Len(turns[k].history) >= 1
        /\ \E i \in 2 .. turns[k].userIdx - 1 : messages[i].text = <<>>

\* C9: the store starts as the greeting alone, every step keeps the messages
\* it had as a prefix, and the greeting stays first.
C9_AppendOnly ==
    /\ messages = <<Greeting>>
    /\ [][IsPrefix(messages, messages')]_vars
    /\ [](Len(messages) >= 1 /\ messages[1] = Greeting)

\* two overlapping turns, one of them complete
C9_Witness ==
    /\ Len(messages) = 4
    /\ messages[1] = Greeting
    /\ messages[2].sender = "user" /\ messages[3].sender = "user"
    /\ messages[4].sender = "bot"
    /\ Cardinality(InFlight) = 1

\* C10: any two distinct messages in the store have different ids.
C10_UniqueIds ==
    \A i, j \in 1 .. Len(messages) : i # j => messages[i].id # messages[j].id

\* C11: every message in the store that has empty text has at least one
\* attachment.
C11_EmptyTextHasAttachment ==
    \A i \in 1 .. Len(messages) :
        messages[i].text = <<>> =>
            /\ "files" \in DOMAIN messages[i]
            /\ Len(messages[i].files) >= 1

\* C12: without the speech-recognition capability isListening stays false.
C12_InertWithoutCapability == ~hasSpeech => ~isListening

\* C13: with the capability, an explicit stop and the end event both reset
\* isListening, and whenever no end event is due isListening is true exactly
\* when the engine is recognising.
C13_ListeningMirrorsEngine ==
    /\ [](hasSpeech /\ recognition # "ending" =>
            (isListening <=> recognition = "started"))
    /\ [][ (hasSpeech /\ lastEvent' = "onend") =>
            (~isListening' /\ recognition' = "idle") ]_vars
    /\ [][ (hasSpeech /\ isListening /\ lastEvent' = "toggleListening") =>
            (~isListening' /\ recognition' # "started") ]_vars

\* the end event of a session that had results has been delivered
C13_Witness ==
    /\ hasSpeech
    /\ lastEvent = "onend"
    /\ recognition = "idle"
    /\ ~isListening
    /\ results # <<>>

\* the characters of the best transcripts of the first n results
RECURSIVE TopsLength(_, _)
TopsLength(rs, n) ==
    IF n = 0 THEN 0 ELSE TopsLength(rs, n - 1) + Len(rs[n].alts[1].transcript)

\* C14: a result event leaves in the input text the best transcript of every
\* result of the event, one after the other in result order, and nothing else.
C14_ResultReplacesInput ==
    [][ lastEvent' = "onresult" =>
            /\ Len(inputText') = TopsLength(results', Len(results'))
            /\ \A i \in 1 .. Len(results') :
                \A j \in 1 .. Len(results'[i].alts[1].transcript) :
                    inputText'[TopsLength(results', i - 1) + j]
                        = results'[i].alts[1].transcript[j] ]_vars

\* two results, the first with two alternatives, delivered over typed text
C14_Witness ==
    /\ lastEvent = "onresult"
    /\ results = <<FinalResult, InterimResult>>
    /\ inputText = <<"h", "i", "h">>

\* what is left of s without its entry at position index + 1
Without(s, index) ==
    [i \in 1 .. Len(s) - 1 |-> IF i <= index THEN s[i] ELSE s[i + 1]]

ExpectedHistory(n) ==
    LET kept == SelectSeq(SubSeq(messages, 2, n - 1), LAMBDA m : m.text # <<>>)
    IN  [j \in 1 .. Len(kept) |->
            [role |-> IF kept[j].sender = "user" THEN "user" ELSE "model",
             parts |-> <<[text |-> kept[j].text]>>]]

\* C16: the history of every submit is the store as it was before the
\* submit's user message, without the greeting and the empty-text messages,
\* in store order, with role user or model and one text part each.
C16_HistoryIsPriorStore ==
    \A k \in 1 .. Len(turns) : turns[k].history = ExpectedHistory(turns[k].userIdx)

\* a submit made while an earlier request is outstanding
C16_Witness ==
    /\ Len(turns) = 2
    /\ InFlight = {1, 2}
    /\ Len(turns[2].history) = 1
    /\ turns[2].history[1].role = "user"

\* C17: an accepted submit appends the user message with the name and size
\* of every staged file in staged order, empties the input text and the
\* staged files, and its request content is the submitted text alone.
C17_SubmitSnapshot ==
    [][ Len(turns') = Len(turns) + 1 =>
            LET m == messages'[Len(messages')]
            IN  /\ Len(messages') = Len(messages) + 1
                /\ m.sender = "user"
                /\ m.text = inputText
                /\ Len(m.files) = Len(attachedFiles)
                /\ \A i \in 1 .. Len(attachedFiles) :
                      m.files[i] = [name |-> attachedFiles[i].name,
                                    size |-> attachedFiles[i].size]
                /\ inputText' = <<>>
                /\ attachedFiles' = <<>>
                /\ turns'[Len(turns')].message = <<inputText>>
                /\ turns'[Len(turns')].status = "pending" ]_vars

\* a submit of text with two staged files
C17_Witness ==
    /\ lastEvent = "sendMessage"
    /\ Len(turns) = 1
    /\ messages[2].text = <<" ", "a">>
    /\ messages[2].files = <<File1, File3>>
    /\ inputText = <<>>
    /\ attachedFiles = <<>>

\* C18: whenever no request is outstanding, isTyping is false.
C18_IdleNotTyping == InFlight = {} => ~isTyping

\* a turn has been settled and nothing is outstanding
C18_Witness ==
    /\ Len(turns) = 1
    /\ Settled = {1}
    /\ ~isTyping

C20_SubmittedTextStaysOut ==
    [][ ( /\ lastEvent' = "onresult"
          /\ inputText = <<>>
          /\ Len(turns) >= 1
          /\ turns[Len(turns)].message[1] # <<>>
          /\ turns[Len(turns)].message[1] = Transcript(results) )
            => ~IsPrefix(turns[Len(turns)].message[1], inputText') ]_vars

====
